---- MODULE Spec2Model ----
(***************************************************************************)
(* Scoring pipeline of report/generate_figures.py: answer extraction,      *)
(* correctness evaluation, per-model resolution, ensemble aggregation and  *)
(* the complementarity matrix.                                             *)
(*                                                                         *)
(* Texts are TLA+ strings; a character is a string of length one.          *)
(* A Python float is a record [none, neg, mag]: sign and magnitude in      *)
(* units of 10^-FracDigits (none = TRUE is Python's None).  Texts of the   *)
(* model carry at most FracDigits fractional digits, no exponent notation, *)
(* no inf/nan, and stay below 2^31 units.                                  *)
(***************************************************************************)
EXTENDS Integers, Sequences, FiniteSets, TLC

VARIABLES call, verdict, data, stats, census_files, census, comp

vars == <<call, verdict, data, stats, census_files, census, comp>>

(* ---------------------------------------------------------------------- *)
(* Characters and strings                                                  *)
(* ---------------------------------------------------------------------- *)

FracDigits == 5

Ch(t, i) == SubSeq(t, i, i)

DIGITS == "0123456789"

LOWER == "abcdefghijklmnopqrstuvwxyz"

UPPER == "ABCDEFGHIJKLMNOPQRSTUVWXYZ"

IndexIn(alphabet, c) ==
    IF \E i \in 1..Len(alphabet) : Ch(alphabet, i) = c
    THEN CHOOSE i \in 1..Len(alphabet) :
             /\ Ch(alphabet, i) = c
             /\ \A j \in 1..(i - 1) : Ch(alphabet, j) # c
    ELSE 0

DigitSet == {Ch(DIGITS, i) : i \in 1..Len(DIGITS)}

LowerSet == {Ch(LOWER, i) : i \in 1..Len(LOWER)}

UpperSet == {Ch(UPPER, i) : i \in 1..Len(UPPER)}

IsDigit(c) == c \in DigitSet

DigitVal(c) == IndexIn(DIGITS, c) - 1

IsSpace(c) == c \in {" ", "\t", "\n", "\r", "\f"}

IsWord(c) == c \in DigitSet \/ c \in LowerSet \/ c \in UpperSet \/ c = "_"

upper_ch(c) == IF c \in LowerSet THEN Ch(UPPER, IndexIn(LOWER, c)) ELSE c

lower_ch(c) == IF c \in UpperSet THEN Ch(LOWER, IndexIn(UPPER, c)) ELSE c

RECURSIVE str_upper(_)
str_upper(t) == IF t = "" THEN "" ELSE upper_ch(Head(t)) \o str_upper(Tail(t))

RECURSIVE lstrip(_)
lstrip(t) == IF t # "" /\ IsSpace(Head(t)) THEN lstrip(Tail(t)) ELSE t

RECURSIVE rstrip(_)
rstrip(t) ==
    IF t # "" /\ IsSpace(Ch(t, Len(t))) THEN rstrip(SubSeq(t, 1, Len(t) - 1)) ELSE t

str_strip(t) == rstrip(lstrip(t))

RECURSIVE remove_commas(_)
remove_commas(t) ==
    IF t = "" THEN ""
    ELSE (IF Head(t) = "," THEN "" ELSE Head(t)) \o remove_commas(Tail(t))

RECURSIVE Pow10(_)
Pow10(k) == IF k = 0 THEN 1 ELSE 10 * Pow10(k - 1)

Unit == Pow10(FracDigits)

(* ---------------------------------------------------------------------- *)
(* Python float: parsing and str()                                         *)
(* ---------------------------------------------------------------------- *)

PyNone == [none |-> TRUE, neg |-> FALSE, mag |-> 0]

Float(n, m) == [none |-> FALSE, neg |-> n, mag |-> m]

FloatNum(v) == IF v.neg THEN 0 - v.mag ELSE v.mag

RECURSIVE DigitsVal(_, _)
DigitsVal(t, acc) ==
    IF t = "" THEN acc ELSE DigitsVal(Tail(t), 10 * acc + DigitVal(Head(t)))

AllDigits(t) == \A i \in 1..Len(t) : IsDigit(Ch(t, i))

\* the first FracDigits digits of a fractional part, as units
FracVal(t) ==
    LET k == IF Len(t) < FracDigits THEN Len(t) ELSE FracDigits
    IN  DigitsVal(SubSeq(t, 1, k), 0) * Pow10(FracDigits - k)

\* float(s) of a decimal literal; none = TRUE stands for ValueError
py_float(s) ==
    LET t    == str_strip(s)
        sgn  == t # "" /\ Head(t) \in {"+", "-"}
        body == IF sgn THEN Tail(t) ELSE t
        dot  == IndexIn(body, ".")
        ip   == IF dot = 0 THEN body ELSE SubSeq(body, 1, dot - 1)
        fp   == IF dot = 0 THEN "" ELSE SubSeq(body, dot + 1, Len(body))
    IN  IF AllDigits(ip) /\ AllDigits(fp) /\ (ip # "" \/ fp # "")
        THEN Float(sgn /\ Head(t) = "-", DigitsVal(ip, 0) * Unit + FracVal(fp))
        ELSE PyNone

RECURSIVE NatStr(_)
NatStr(n) ==
    IF n < 10 THEN Ch(DIGITS, n + 1) ELSE NatStr(n \div 10) \o Ch(DIGITS, (n % 10) + 1)

RECURSIVE StripZeros(_)
StripZeros(t) ==
    IF t # "" /\ Ch(t, Len(t)) = "0" THEN StripZeros(SubSeq(t, 1, Len(t) - 1)) ELSE t

RECURSIVE PadLeft(_, _)
PadLeft(t, w) == IF Len(t) >= w THEN t ELSE PadLeft("0" \o t, w)

\* str(val) of a float: repr, exponent notation below 1e-4
float_str(v) ==
    LET sign == IF v.neg THEN "-" ELSE ""
        ds   == NatStr(v.mag)
        sig  == StripZeros(ds)
        ex   == FracDigits + 1 - Len(ds)
        fr   == StripZeros(PadLeft(NatStr(v.mag % Unit), FracDigits))
    IN  IF v.mag = 0 THEN sign \o "0.0"
        ELSE IF ex > 4
        THEN sign \o Head(sig) \o (IF Len(sig) > 1 THEN "." \o Tail(sig) ELSE "")
                  \o "e-" \o PadLeft(NatStr(ex), 2)
        ELSE sign \o NatStr(v.mag \div Unit) \o "." \o (IF fr = "" THEN "0" ELSE fr)

(* ---------------------------------------------------------------------- *)
(* Regular-expression pieces                                               *)
(* ---------------------------------------------------------------------- *)

\* re.IGNORECASE match of the literal lit at position p
LitAt(t, p, lit) ==
    /\ p + Len(lit) - 1 <= Len(t)
    /\ \A i \in 1..Len(lit) : lower_ch(Ch(t, p + i - 1)) = lower_ch(Ch(lit, i))

\* first position >= p holding no whitespace (\s*)
RECURSIVE SkipSpace(_, _)
SkipSpace(t, p) == IF p <= Len(t) /\ IsSpace(Ch(t, p)) THEN SkipSpace(t, p + 1) ELSE p

RECURSIVE SkipDigits(_, _, _)
SkipDigits(t, p, comma) ==
    IF p <= Len(t) /\ (IsDigit(Ch(t, p)) \/ (comma /\ Ch(t, p) = ","))
    THEN SkipDigits(t, p + 1, comma) ELSE p

\* [+-]?\d[\d,]*\.?\d* at position p: position after the match, 0 if none
NumEnd(t, p) ==
    LET s == IF p <= Len(t) /\ Ch(t, p) \in {"+", "-"} THEN p + 1 ELSE p
    IN  IF s > Len(t) \/ ~IsDigit(Ch(t, s)) THEN 0
        ELSE LET a == SkipDigits(t, s + 1, TRUE)
                 b == IF a <= Len(t) /\ Ch(t, a) = "." THEN a + 1 ELSE a
             IN  SkipDigits(t, b, FALSE)

Opt(t, p, c) == IF p <= Len(t) /\ Ch(t, p) = c THEN p + 1 ELSE p

Min(S) == CHOOSE x \in S : \A y \in S : x <= y

\* "if not m: m = ...": the capture a when it matched, else the capture b
Coalesce(a, b) == IF a # "" THEN a ELSE b

\* the capture cap[i] of the least i at which the pattern matched, "" if none
FirstMatch(cap) ==
    LET hits == {i \in DOMAIN cap : cap[i] # ""}
    IN  IF hits = {} THEN "" ELSE cap[Min(hits)]

(* ---------------------------------------------------------------------- *)
(* extract_numeric                                                         *)
(* ---------------------------------------------------------------------- *)

NUMERIC_CUES == <<"final answer", "answer is", "equals", "=">>

\* \s*\$?\s*([+-]?\d[\d,]*\.?\d*) from position q: the captured number
CueTail(t, q) ==
    LET s == SkipSpace(t, Opt(t, SkipSpace(t, q), "$"))
        e == NumEnd(t, s)
    IN  IF e = 0 THEN "" ELSE SubSeq(t, s, e - 1)

\* (?:final answer|answer is|equals|=)\s*\$?\s*(number)
NumericCueAt(t, p) ==
    FirstMatch([k \in 1..Len(NUMERIC_CUES) |->
                  IF LitAt(t, p, NUMERIC_CUES[k])
                  THEN CueTail(t, p + Len(NUMERIC_CUES[k])) ELSE ""])

\* re.search of that pattern: the capture at the leftmost match, "" if none
NumericCueSearch(t) == FirstMatch([p \in 1..Len(t) |-> NumericCueAt(t, p)])

\* \*\*\$?(number)\*\*
NumericBoldAt(t, p) ==
    LET s == Opt(t, p + 2, "$")
        e == NumEnd(t, s)
    IN  IF LitAt(t, p, "**") /\ e # 0 /\ LitAt(t, e, "**")
        THEN SubSeq(t, s, e - 1) ELSE ""

\* re.search of that pattern: the capture at the leftmost match, "" if none
NumericBoldSearch(t) == FirstMatch([p \in 1..Len(t) |-> NumericBoldAt(t, p)])

\* \$(number)
NumericDollarAt(t, p) ==
    LET e == NumEnd(t, p + 1)
    IN  IF Ch(t, p) = "$" /\ e # 0 THEN SubSeq(t, p + 1, e - 1) ELSE ""

\* re.search of that pattern: the capture at the leftmost match, "" if none
NumericDollarSearch(t) == FirstMatch([p \in 1..Len(t) |-> NumericDollarAt(t, p)])

\* re.findall(number)[-1], "" when there is no number
RECURSIVE LastNumber(_, _, _)
LastNumber(t, p, last) ==
    IF p > Len(t) THEN last
    ELSE LET e == NumEnd(t, p)
         IN  IF e = 0 THEN LastNumber(t, p + 1, last)
             ELSE LastNumber(t, e, SubSeq(t, p, e - 1))

\* the four patterns in order; float() of the first capture, None if no
\* pattern matched or float() raised
extract_numeric(text) ==
    IF text = "" THEN PyNone
    ELSE py_float(remove_commas(
             Coalesce(NumericCueSearch(text),
             Coalesce(NumericBoldSearch(text),
             Coalesce(NumericDollarSearch(text), LastNumber(text, 1, ""))))))

(* ---------------------------------------------------------------------- *)
(* extract_mcq ("" is Python's None)                                       *)
(* ---------------------------------------------------------------------- *)

MCQ_CUES == <<"answer is", "correct answer is", "answer:">>

IsChoice(c) == c \in {"A", "B", "C", "D", "a", "b", "c", "d"}

\* \s*\(?([A-Da-d]) from position q: the captured letter
McqCueTail(t, q) ==
    LET s == Opt(t, SkipSpace(t, q), "(")
    IN  IF s <= Len(t) /\ IsChoice(Ch(t, s)) THEN Ch(t, s) ELSE ""

\* (?:answer is|correct answer is|answer:)\s*\(?([A-Da-d])\)?
McqCueAt(t, p) ==
    FirstMatch([k \in 1..Len(MCQ_CUES) |->
                  IF LitAt(t, p, MCQ_CUES[k])
                  THEN McqCueTail(t, p + Len(MCQ_CUES[k])) ELSE ""])

\* re.search of that pattern: the capture at the leftmost match, "" if none
McqCueSearch(t) == FirstMatch([p \in 1..Len(t) |-> McqCueAt(t, p)])

\* \b([A-Da-d])\)
McqParenAt(t, p) ==
    IF /\ IsChoice(Ch(t, p))
       /\ (p = 1 \/ ~IsWord(Ch(t, p - 1)))
       /\ p + 1 <= Len(t) /\ Ch(t, p + 1) = ")"
    THEN Ch(t, p) ELSE ""

\* re.search of that pattern: the capture at the leftmost match, "" if none
McqParenSearch(t) == FirstMatch([p \in 1..Len(t) |-> McqParenAt(t, p)])

\* \*\*([A-Da-d])\*\*
McqBoldAt(t, p) ==
    IF LitAt(t, p, "**") /\ p + 2 <= Len(t) /\ IsChoice(Ch(t, p + 2)) /\ LitAt(t, p + 3, "**")
    THEN Ch(t, p + 2) ELSE ""

\* re.search of that pattern: the capture at the leftmost match, "" if none
McqBoldSearch(t) == FirstMatch([p \in 1..Len(t) |-> McqBoldAt(t, p)])

\* the last resort: the stripped text when it is a single letter A-D
SingleLetter(stripped) ==
    IF Len(stripped) = 1 /\ str_upper(stripped) \in {"A", "B", "C", "D"}
    THEN stripped ELSE ""

\* the three patterns in order, then the single letter; upper-cased
extract_mcq(text) ==
    IF text = "" THEN ""
    ELSE str_upper(
             Coalesce(McqCueSearch(text),
             Coalesce(McqParenSearch(text),
             Coalesce(McqBoldSearch(text), SingleLetter(str_strip(text))))))

(* ---------------------------------------------------------------------- *)
(* evaluate_answer                                                         *)
(* ---------------------------------------------------------------------- *)

Abs(x) == IF x < 0 THEN 0 - x ELSE x

\* abs(predicted - expected) < 1e-6 on the grid of 10^-FracDigits
Within1e6(a, b) ==
    IF FracDigits <= 6 THEN FloatNum(a) = FloatNum(b)
    ELSE Abs(FloatNum(a) - FloatNum(b)) < Pow10(FracDigits - 6)

\* predicted is not None and abs(predicted - expected) < 1e-6
NumericEqual(predicted, expected) ==
    IF expected.none \/ predicted.none THEN FALSE ELSE Within1e6(predicted, expected)

\* predicted is not None and predicted.upper() == ground_truth.upper()
McqEqual(predicted, ground_truth) ==
    IF predicted = "" THEN FALSE ELSE str_upper(predicted) = str_upper(ground_truth)

evaluate_answer(evaluator, answer, ground_truth) ==
    IF answer = "" \/ ground_truth = "" THEN FALSE
    ELSE IF evaluator = "numeric"
    THEN NumericEqual(extract_numeric(answer), py_float(remove_commas(ground_truth)))
    ELSE IF evaluator = "mcq"
    THEN McqEqual(extract_mcq(answer), ground_truth)
    ELSE FALSE

(* ---------------------------------------------------------------------- *)
(* model_correct_for_run                                                   *)
(* ---------------------------------------------------------------------- *)

\* m.split(':')[-1] if ':' in m else m
RECURSIVE short_name(_)
short_name(m) ==
    IF IndexIn(m, ":") = 0 THEN m ELSE short_name(SubSeq(m, IndexIn(m, ":") + 1, Len(m)))

\* r.get('evaluation', {}).get('results', {}).get(m, {}); "None" is a missing key
EvalResult(r, m) ==
    IF m \in DOMAIN r.evaluation THEN r.evaluation[m]
    ELSE [correct |-> "None", predicted |-> "None"]

\* without the test of the error flag: the first response of m
FirstResponse_any(r, m) ==
    LET hits == {i \in 1..Len(r.responses) :
                   r.responses[i].model = m \/ r.responses[i].model = short_name(m)}
    IN  IF hits = {} THEN 0 ELSE Min(hits)

\* the loop over r['responses']: the first non-errored response of m
FirstResponse(r, m) ==
    LET hits == {i \in 1..Len(r.responses) :
                   /\ (r.responses[i].model = m \/ r.responses[i].model = short_name(m))
                   /\ ~r.responses[i].error}
    IN  IF hits = {} THEN 0 ELSE Min(hits)

\* without the recovery branch: a stored false is returned as stored
model_correct_for_run_stored(r, m, evaluator_type) ==
    LET eval_result == EvalResult(r, m)
        i == FirstResponse(r, m)
    IN  IF eval_result.correct = "True" THEN TRUE
        ELSE IF eval_result.correct # "None" THEN eval_result.correct = "True"
        ELSE IF i # 0
        THEN evaluate_answer(evaluator_type, r.responses[i].content, r.groundTruth)
        ELSE FALSE

\* recovery on every stored false, whatever predicted holds
model_correct_for_run_eager(r, m, evaluator_type) ==
    LET eval_result == EvalResult(r, m)
        i == FirstResponse(r, m)
    IN  IF eval_result.correct = "True" THEN TRUE
        ELSE IF eval_result.correct = "False" /\ i # 0
        THEN evaluate_answer(evaluator_type, r.responses[i].content, r.groundTruth)
        ELSE IF eval_result.correct # "None" THEN eval_result.correct = "True"
        ELSE IF i # 0
        THEN evaluate_answer(evaluator_type, r.responses[i].content, r.groundTruth)
        ELSE FALSE

model_correct_for_run(r, m, evaluator_type) ==
    LET eval_result == EvalResult(r, m)
        i == FirstResponse(r, m)
    IN  IF eval_result.correct = "True" THEN TRUE
        ELSE IF eval_result.correct = "False" /\ eval_result.predicted = "None" /\ i # 0
        THEN evaluate_answer(evaluator_type, r.responses[i].content, r.groundTruth)
        ELSE IF eval_result.correct # "None" THEN eval_result.correct = "True"
        ELSE IF i # 0
        THEN evaluate_answer(evaluator_type, r.responses[i].content, r.groundTruth)
        ELSE FALSE

(* ---------------------------------------------------------------------- *)
(* load_ensemble                                                           *)
(* ---------------------------------------------------------------------- *)

MIN_RUNS == 30

MAX_ERROR_PCT == 15

\* an accuracy in percent, correct / n * 100, kept as an exact fraction
Pct(correct, n) == [num |-> 100 * correct, den |-> n]

PctGE(a, b) == a.num * b.den >= b.num * a.den

\* 'sub' in t
Contains(t, sub) == \E p \in 1..(Len(t) - Len(sub) + 1) : SubSeq(t, p, p + Len(sub) - 1) = sub

RECURSIVE TotalResponses(_)
TotalResponses(runs) ==
    IF runs = <<>> THEN 0 ELSE Len(Head(runs).responses) + TotalResponses(Tail(runs))

RECURSIVE ErrorResponses(_)
ErrorResponses(runs) ==
    IF runs = <<>> THEN 0
    ELSE Cardinality({i \in 1..Len(Head(runs).responses) : Head(runs).responses[i].error})
         + ErrorResponses(Tail(runs))

\* r.get('consensus', {}).get(s, '')
ConsensusAnswer(r, s) == IF s \in DOMAIN r.consensus THEN r.consensus[s] ELSE ""

\* "if val is not None: answers.append(str(val))"
NumericVote(val) == IF val.none THEN <<>> ELSE <<float_str(val)>>

McqVote(val) == IF val = "" THEN <<>> ELSE <<val>>

\* the answers list of the mechanical majority: one canonical string per
\* non-errored response with an extractable answer, in encounter order
RECURSIVE MechAnswers(_, _)
MechAnswers(responses, evaluator_type) ==
    IF responses = <<>> THEN <<>>
    ELSE LET resp == Head(responses)
             rest == MechAnswers(Tail(responses), evaluator_type)
         IN  IF resp.error THEN rest
             ELSE IF evaluator_type = "numeric"
             THEN NumericVote(extract_numeric(resp.content)) \o rest
             ELSE McqVote(extract_mcq(resp.content)) \o rest

Count(answers, a) == Cardinality({i \in 1..Len(answers) : answers[i] = a})

\* Counter(answers).most_common(1)[0][0]: highest count, first inserted on ties
MostCommon(answers) ==
    LET first == {i \in 1..Len(answers) : \A j \in 1..(i - 1) : answers[j] # answers[i]}
        best  == {i \in first : \A j \in first : Count(answers, answers[i]) >= Count(answers, answers[j])}
    IN  answers[Min(best)]

\* "if answers: vote = ...; evaluate_answer(evaluator_type, vote, gt)"
VoteCounts(answers, evaluator_type, gt) ==
    answers # <<>> /\ evaluate_answer(evaluator_type, MostCommon(answers), gt)

MechCorrect(r, evaluator_type) ==
    VoteCounts(MechAnswers(r.responses, evaluator_type), evaluator_type, r.groundTruth)

\* the last key of the highest accuracy instead of the first
BestModelIndex_last(models, acc) ==
    LET keys == {i \in 1..Len(models) : \A j \in 1..(i - 1) : models[j] # models[i]}
        best == {i \in keys : \A j \in keys : PctGE(acc[i], acc[j])}
    IN  IF keys = {} THEN 0 ELSE CHOOSE i \in best : \A j \in best : j <= i

\* max(model_acc, key=model_acc.get): the first key, in insertion order, of
\* the highest accuracy; acc[i] is the accuracy of models[i]; 0 stands for
\* the ValueError on an empty dict
BestModelIndex(models, acc) ==
    LET keys == {i \in 1..Len(models) : \A j \in 1..(i - 1) : models[j] # models[i]}
        best == {i \in keys : \A j \in keys : PctGE(acc[i], acc[j])}
    IN  IF keys = {} THEN 0 ELSE Min(best)

\* the three early returns: no runs, too many errored responses, too few runs
GateRejects_strict(n, total_responses, error_responses) ==
    \/ n = 0
    \/ total_responses > 0 /\ 100 * error_responses >= MAX_ERROR_PCT * total_responses
    \/ n < MIN_RUNS

GateRejects(n, total_responses, error_responses) ==
    \/ n = 0
    \/ total_responses > 0 /\ 100 * error_responses > MAX_ERROR_PCT * total_responses
    \/ n < MIN_RUNS

\* evaluate_answer(evaluator_type, r['consensus'].get(s, ''), gt)
StrategyRunCorrect_whole(r, s, evaluator_type) ==
    LET answer == ConsensusAnswer(r, s)
    IN  /\ answer # "" /\ r.groundTruth # ""
        /\ IF evaluator_type = "numeric"
           THEN /\ ~py_float(remove_commas(answer)).none
                /\ ~py_float(remove_commas(r.groundTruth)).none
                /\ Within1e6(py_float(remove_commas(answer)),
                             py_float(remove_commas(r.groundTruth)))
           ELSE str_upper(answer) = str_upper(r.groundTruth)

StrategyRunCorrect(r, s, evaluator_type) ==
    evaluate_answer(evaluator_type, ConsensusAnswer(r, s), r.groundTruth)

\* any(model_correct_for_run(r, m, evaluator_type) for m in models)
OracleRunCorrect_first(r, models, evaluator_type) ==
    models # <<>> /\ model_correct_for_run(r, models[1], evaluator_type)

OracleRunCorrect(r, models, evaluator_type) ==
    \E j \in 1..Len(models) : model_correct_for_run(r, models[j], evaluator_type)

\* the per-model loop stopping one run short of the end
RECURSIVE ModelCorrectCounts_short(_, _, _)
ModelCorrectCounts_short(models, runs, evaluator_type) ==
    IF models = <<>> THEN <<>>
    ELSE <<Cardinality({i \in 1..(Len(runs) - 1) :
                model_correct_for_run(runs[i], Head(models), evaluator_type)})>>
         \o ModelCorrectCounts_short(Tail(models), runs, evaluator_type)

\* the loops "for m in models" / "for s in strategies": one count per list entry
RECURSIVE ModelCorrectCounts(_, _, _)
ModelCorrectCounts(models, runs, evaluator_type) ==
    IF models = <<>> THEN <<>>
    ELSE <<Cardinality({i \in 1..Len(runs) :
                model_correct_for_run(runs[i], Head(models), evaluator_type)})>>
         \o ModelCorrectCounts(Tail(models), runs, evaluator_type)

RECURSIVE StrategyCorrectCounts(_, _, _)
StrategyCorrectCounts(strategies, runs, evaluator_type) ==
    IF strategies = <<>> THEN <<>>
    ELSE <<Cardinality({i \in 1..Len(runs) :
                StrategyRunCorrect(runs[i], Head(strategies), evaluator_type)})>>
         \o StrategyCorrectCounts(Tail(strategies), runs, evaluator_type)

\* the dict built by the loop: the value of a key is the one stored last
AsDict(keys, counts, n) ==
    [k \in {keys[i] : i \in 1..Len(keys)} |->
        Pct(counts[CHOOSE i \in 1..Len(keys) :
                     keys[i] = k /\ \A j \in (i + 1)..Len(keys) : keys[j] # k], n)]

load_ensemble(d) ==
    LET runs == d.runs
        n    == Len(runs)
        total_responses == TotalResponses(runs)
        error_responses == ErrorResponses(runs)
        evaluator_type  == IF Contains(d.dataset, "gsm8k") THEN "numeric" ELSE "mcq"
        model_counts    == ModelCorrectCounts(d.models, runs, evaluator_type)
        strategy_counts == StrategyCorrectCounts(d.strategies, runs, evaluator_type)
        model_acc       == AsDict(d.models, model_counts, n)
        strategy_acc    == AsDict(d.strategies, strategy_counts, n)
        oracle_correct ==
            Cardinality({i \in 1..n : OracleRunCorrect(runs[i], d.models, evaluator_type)})
        mech_correct == Cardinality({i \in 1..n : MechCorrect(runs[i], evaluator_type)})
        best == BestModelIndex(d.models, [j \in 1..Len(d.models) |-> Pct(model_counts[j], n)])
    IN  IF GateRejects(n, total_responses, error_responses) THEN [status |-> "None"]
        ELSE IF best = 0 THEN [status |-> "ValueError"]
        ELSE [status |-> "stats", dataset |-> d.dataset, n |-> n,
              models |-> d.models, strategies |-> d.strategies,
              model_acc |-> model_acc, strategy_acc |-> strategy_acc,
              oracle_acc |-> Pct(oracle_correct, n),
              mechanical_majority_acc |-> Pct(mech_correct, n),
              best_model |-> d.models[best], best_model_acc |-> model_acc[d.models[best]]]

(* ---------------------------------------------------------------------- *)
(* load_census and fig_complementarity_heatmap                             *)
(* ---------------------------------------------------------------------- *)

DATASETS == <<"gsm8k", "truthfulqa", "gpqa">>

BAND_A_MIN == 75

\* r.get("evaluation", {}).get("results", {}).get(model, {}).get("correct", False)
StoredCorrect(r, model) == EvalResult(r, model).correct = "True"

\* indices of the files with runs, the ones load_census does not skip
Counted(files) == {f \in 1..Len(files) : files[f].runs # <<>>}

\* the file whose accuracy results[model][dataset] ends up holding (0: none)
LastFile(files, model, dataset) ==
    LET fs == {f \in Counted(files) : files[f].model = model /\ files[f].dataset = dataset}
    IN  IF fs = {} THEN 0 ELSE CHOOSE f \in fs : \A g \in fs : g <= f

FileAccuracy(file) ==
    Pct(Cardinality({i \in 1..Len(file.runs) : StoredCorrect(file.runs[i], file.model)}),
        Len(file.runs))

\* load_census: keys in insertion order, and {model: {dataset: accuracy}}
load_census(files) ==
    LET firsts == {f \in Counted(files) :
                     \A g \in Counted(files) : g < f => files[g].model # files[f].model}
        rank(f) == Cardinality({g \in firsts : g <= f})
    IN  [order |-> [k \in 1..Cardinality(firsts) |->
                       files[CHOOSE f \in firsts : rank(f) = k].model],
         acc   |-> [m \in {files[f].model : f \in firsts} |->
                       [ds \in {files[f].dataset : f \in {g \in Counted(files) : files[g].model = m}}
                          |-> FileAccuracy(files[LastFile(files, m, ds)])]]]

\* census[m].get(d, 0)
CensusGet(c, m, ds) == IF ds \in DOMAIN c.acc[m] THEN c.acc[m][ds] ELSE Pct(0, 1)

\* np.mean([census[m].get(d, 0) for d in DATASETS]) as an exact fraction
RECURSIVE SumPct(_)
SumPct(ps) ==
    IF ps = <<>> THEN [num |-> 0, den |-> 1]
    ELSE LET h == Head(ps)
             t == SumPct(Tail(ps))
         IN  [num |-> h.num * t.den + t.num * h.den, den |-> h.den * t.den]

MeanAccuracy(c, m) ==
    LET total == SumPct([k \in 1..Len(DATASETS) |-> CensusGet(c, m, DATASETS[k])])
    IN  [num |-> total.num, den |-> total.den * Len(DATASETS)]

\* the filter of band_a: mean >= 75
InBandA_strict(c, m) == MeanAccuracy(c, m).num > BAND_A_MIN * MeanAccuracy(c, m).den

InBandA(c, m) == MeanAccuracy(c, m).num >= BAND_A_MIN * MeanAccuracy(c, m).den

\* band_a after the filter and the stable sort by mean, highest first
BandA(c) ==
    LET sel == {k \in 1..Len(c.order) : InBandA(c, c.order[k])}
        before(a, b) ==
            \/ ~PctGE(MeanAccuracy(c, c.order[b]), MeanAccuracy(c, c.order[a]))
            \/ PctGE(MeanAccuracy(c, c.order[a]), MeanAccuracy(c, c.order[b])) /\ a < b
        pos(a) == 1 + Cardinality({b \in sel : before(b, a)})
    IN  [p \in 1..Cardinality(sel) |-> c.order[CHOOSE a \in sel : pos(a) = p]]

\* per_q[model][dataset]: question index -> stored verdict, later files win
PerQ(files, model, dataset) ==
    LET fs == {f \in 1..Len(files) : files[f].model = model /\ files[f].dataset = dataset}
        qs == UNION {DOMAIN files[f].runs : f \in fs}
        last(q) == CHOOSE f \in fs :
                       q <= Len(files[f].runs)
                       /\ \A g \in fs : q <= Len(files[g].runs) => g <= f
    IN  [q \in qs |-> StoredCorrect(files[last(q)].runs[q], model)]

\* the loop over DATASETS: <<total, complementary>> for the pair (m1, m2)
RECURSIVE PairCounts_agree(_, _, _, _)
PairCounts_agree(files, m1, m2, datasets) ==
    IF datasets = <<>> THEN <<0, 0>>
    ELSE LET q1 == PerQ(files, m1, Head(datasets))
             q2 == PerQ(files, m2, Head(datasets))
             shared_qs == DOMAIN q1 \cap DOMAIN q2
             rest == PairCounts_agree(files, m1, m2, Tail(datasets))
         IN  <<Cardinality(shared_qs) + rest[1],
               Cardinality({q \in shared_qs : q1[q] = q2[q]}) + rest[2]>>

RECURSIVE PairCounts(_, _, _, _)
PairCounts(files, m1, m2, datasets) ==
    IF datasets = <<>> THEN <<0, 0>>
    ELSE LET q1 == PerQ(files, m1, Head(datasets))
             q2 == PerQ(files, m2, Head(datasets))
             shared_qs == DOMAIN q1 \cap DOMAIN q2
             rest == PairCounts(files, m1, m2, Tail(datasets))
         IN  <<Cardinality(shared_qs) + rest[1],
               Cardinality({q \in shared_qs : q1[q] # q2[q]}) + rest[2]>>

\* complementary / max(total, 1)
Ratio(complementary, total) ==
    [num |-> complementary, den |-> IF total > 1 THEN total ELSE 1]

\* per_q after the loop over the census files: model -> dataset -> {qidx: correct}
PerQAll(files) ==
    LET filled == {f \in 1..Len(files) : files[f].runs # <<>>}
    IN  [m \in {files[f].model : f \in filled} |->
            [ds \in {files[f].dataset : f \in {g \in filled : files[g].model = m}} |->
                PerQ(files, m, ds)]]

fig_complementarity_heatmap(c, files) ==
    LET band_a == BandA(c)
        n_models == Len(band_a)
    IN  IF n_models < 2 THEN [status |-> "skip"]
        ELSE [status |-> "matrix", band_a |-> band_a, per_q |-> PerQAll(files),
              comp_matrix |->
                [i \in 1..n_models |-> [j \in 1..n_models |->
                    IF i = j THEN Ratio(0, 1)
                    ELSE LET pc == PairCounts(files, band_a[i], band_a[j], DATASETS)
                         IN  Ratio(pc[2], pc[1])]]]

(* ---------------------------------------------------------------------- *)
(* Calls of model_correct_for_run                                          *)
(* ---------------------------------------------------------------------- *)

MaxResponses == 2

Idle == [status |-> "idle"]

SeqsUpTo(S, n) == UNION {[1..k -> S] : k \in 0..n}

ModelIds == {"openai:gpt-4", "gpt-4", "xai:grok"}

\* evaluator type, ground truth and the response contents tried with it
ResolverKinds ==
    { [evaluator_type |-> "mcq",     groundTruth |-> "B", contents |-> {"answer is B", "C", ""}],
      [evaluator_type |-> "mcq",     groundTruth |-> "",  contents |-> {"answer is B", "C", ""}],
      [evaluator_type |-> "numeric", groundTruth |-> "7", contents |-> {"= 7", "9", ""}] }

EvalEntries == [correct : {"True", "False", "None"}, predicted : {"None", "x"}]

\* evaluation.results: no entry, or one entry under either form of the id
Evaluations ==
    {<<>>} \cup {[k \in {key} |-> e] : key \in {"openai:gpt-4", "gpt-4"}, e \in EvalEntries}

ResolverResponses(k) ==
    SeqsUpTo([model : ModelIds, content : k.contents, error : BOOLEAN], MaxResponses)

InitResolver ==
    /\ \E k \in ResolverKinds, m \in {"openai:gpt-4", "gpt-4"}, ev \in Evaluations :
         \E rs \in ResolverResponses(k) :
            call = [r |-> [groundTruth |-> k.groundTruth, responses |-> rs,
                           evaluation |-> ev, consensus |-> <<>>],
                    m |-> m, evaluator_type |-> k.evaluator_type]
    /\ verdict = [done |-> FALSE, value |-> FALSE]
    /\ data = Idle /\ stats = Idle
    /\ census_files = <<>> /\ census = Idle /\ comp = Idle

ModelCorrectForRun ==
    /\ ~verdict.done
    /\ verdict' = [done |-> TRUE,
                   value |-> model_correct_for_run(call.r, call.m, call.evaluator_type)]
    /\ UNCHANGED <<call, data, stats, census_files, census, comp>>

NextResolver == ModelCorrectForRun

SpecResolver == InitResolver /\ [][NextResolver]_vars

(* ---------------------------------------------------------------------- *)
(* Calls of load_ensemble                                                  *)
(* ---------------------------------------------------------------------- *)

MaxVotes == 3

\* dataset, ground truth, the right answer and the texts tried with them
EnsembleKinds ==
    { [dataset |-> "truthfulqa", groundTruth |-> "B", right |-> "B", wrong |-> "A",
       contents  |-> {"A", "B", "zz", ""},
       consensus |-> {"B", "b) yes", "A"}],
      [dataset |-> "gsm8k", groundTruth |-> "7", right |-> "7", wrong |-> "9",
       contents  |-> {"7", "9", "x", ""},
       consensus |-> {"7", "answer is 7", "9"}],
      [dataset |-> "gsm8k", groundTruth |-> "0.00001", right |-> "0.00001", wrong |-> "5",
       contents  |-> {"0.00001", "= 0.00001", "5", ""},
       consensus |-> {"0.00001", "$0.00001", "5"}] }

\* the model that wrote the i-th response of a run
ParticipantAt(i) ==
    IF i = 1 THEN "openai:gpt-4" ELSE IF i = 2 THEN "grok" ELSE "anthropic:claude"

Run(gt, rs, cons, ev) ==
    [groundTruth |-> gt, responses |-> rs, consensus |-> cons, evaluation |-> ev]

Resp(m, c, e) == [model |-> m, content |-> c, error |-> e]

\* runs that differ in what the responses say; an errored response carries
\* the right answer, which must not be counted
VoteRuns(k) ==
    { Run(k.groundTruth, [i \in DOMAIN rs |-> Resp(ParticipantAt(i), rs[i].content, rs[i].error)],
          <<>>, <<>>) :
      rs \in SeqsUpTo([content : k.contents, error : {FALSE}]
                         \cup {[content |-> k.right, error |-> TRUE]}, MaxVotes) }

\* runs that differ in the stored consensus answers
ConsensusRuns(k) ==
    { Run(k.groundTruth, <<Resp("openai:gpt-4", k.right, FALSE)>>, cons, <<>>) :
      cons \in UNION {[S -> k.consensus] : S \in SUBSET {"majority", "elo"}} }

\* runs that differ in the stored evaluation metadata
EvaluationRuns(k) ==
    { Run(k.groundTruth, <<Resp("openai:gpt-4", c1, FALSE), Resp("grok", c2, e2)>>, <<>>, ev) :
      c1 \in {k.right, k.wrong}, c2 \in {k.right, k.wrong}, e2 \in BOOLEAN,
      ev \in UNION {[S -> {[correct |-> "True", predicted |-> "x"],
                           [correct |-> "False", predicted |-> "x"],
                           [correct |-> "False", predicted |-> "None"]}] :
                    S \in SUBSET {"openai:gpt-4", "xai:grok"}} }

HeadRuns(k) == VoteRuns(k) \cup ConsensusRuns(k) \cup EvaluationRuns(k)

\* the runs a batch is filled up with
OkRun(k) == Run(k.groundTruth, <<Resp("openai:gpt-4", k.right, FALSE)>>, ("majority" :> k.right), <<>>)

AltRun(k) ==
    Run(k.groundTruth, <<Resp("gpt-4", k.wrong, FALSE), Resp("grok", k.right, FALSE)>>,
        ("elo" :> k.right), <<>>)

ErrRun(k) == Run(k.groundTruth, <<Resp("openai:gpt-4", k.right, TRUE)>>, <<>>, <<>>)

BareRun == Run("", <<>>, <<>>, <<>>)

Copies(r, n) == [i \in 1..n |-> r]

Fill(k, c) ==
    Copies(OkRun(k), c.ok) \o Copies(AltRun(k), c.alt) \o Copies(ErrRun(k), c.err)
        \o Copies(BareRun, c.bare)

FC(ok, alt, err, bare) == [ok |-> ok, alt |-> alt, err |-> err, bare |-> bare]

\* fill counts around the two gates: 29/30 runs, 3/20 and 4/25 errored responses
GateFills ==
    { FC(17, 0, 3, 10), FC(17, 0, 3, 9), FC(21, 0, 4, 5), FC(21, 0, 4, 4),
      FC(30, 0, 0, 0), FC(29, 0, 0, 0), FC(28, 0, 0, 0), FC(0, 0, 0, 30),
      FC(14, 14, 2, 0), FC(10, 10, 4, 6), FC(0, 0, 0, 0), FC(25, 0, 5, 0) }

StatFills == { FC(14, 14, 1, 0) }

ModelLists ==
    { <<>>, <<"openai:gpt-4">>, <<"openai:gpt-4", "xai:grok">>, <<"xai:grok", "gpt-4">> }

StrategyLists == { <<>>, <<"majority">>, <<"elo", "majority">> }

Batch(k, ms, ss, runs) ==
    [dataset |-> k.dataset, models |-> ms, strategies |-> ss, runs |-> runs]

\* a run without responses that holds a stored verdict
StoredRun(k) ==
    Run(k.groundTruth, <<>>, <<>>, ("openai:gpt-4" :> [correct |-> "True", predicted |-> "x"]))

GateHeads(k) == {<<>>, <<BareRun>>, <<ErrRun(k)>>, <<OkRun(k)>>, <<StoredRun(k)>>}

\* batches that differ in size, error rate and the two lists
InitGateBatch ==
    \E k \in EnsembleKinds, ms \in ModelLists, ss \in StrategyLists, c \in GateFills :
        \E head \in GateHeads(k) : data = Batch(k, ms, ss, head \o Fill(k, c))

\* batches of accepted size that differ in one run
InitStatBatch ==
    \E k \in EnsembleKinds, c \in StatFills :
        \E r \in HeadRuns(k) :
            data = Batch(k, <<"openai:gpt-4", "xai:grok">>, <<"elo", "majority">>,
                         <<r>> \o Fill(k, c))

InitEnsemble ==
    /\ InitGateBatch \/ InitStatBatch
    /\ stats = [status |-> "pending"]
    /\ call = Idle /\ verdict = Idle
    /\ census_files = <<>> /\ census = Idle /\ comp = Idle

LoadEnsemble ==
    /\ stats.status = "pending"
    /\ stats' = load_ensemble(data)
    /\ UNCHANGED <<call, verdict, data, census_files, census, comp>>

NextEnsemble == LoadEnsemble

SpecEnsemble == InitEnsemble /\ [][NextEnsemble]_vars

(* ---------------------------------------------------------------------- *)
(* load_all_ensembles: one load_ensemble call per batch file               *)
(* ---------------------------------------------------------------------- *)

\* "r = load_ensemble(fp); if r: results[slug][dataset] = r"; an exception
\* of load_ensemble ends load_all_ensembles
StoreResult(st, i, r) ==
    IF r.status = "ValueError" THEN [status |-> "ValueError", results |-> st.results]
    ELSE IF r.status = "None" THEN st
    ELSE [status |-> "results", results |-> (i :> r) @@ st.results]

\* the first batch file: accepted, differing in kind, head run and model list
FirstBatches ==
    { Batch(k, ms, <<"elo", "majority">>,
            <<IF bare THEN BareRun
              ELSE Run(k.groundTruth, <<Resp("grok", k.right, FALSE)>>, ("elo" :> k.wrong), <<>>)>>
            \o Fill(k, FC(14, 14, 1, 0))) :
        k \in EnsembleKinds,
        ms \in {<<"openai:gpt-4", "xai:grok">>, <<"xai:grok", "gpt-4">>},
        bare \in BOOLEAN }

\* the second batch file: accepted, rejected, or without models
SecondBatches ==
    { Batch(k, ms, <<"majority">>, Fill(k, c)) :
        k \in {j \in EnsembleKinds : j.groundTruth # "0.00001"},
        ms \in {<<"openai:gpt-4">>, <<>>},
        c \in {FC(29, 0, 0, 1), FC(20, 0, 0, 0), FC(21, 0, 4, 5)} }

InitAll ==
    /\ \E b1 \in FirstBatches, b2 \in SecondBatches : data = <<b1, b2>>
    /\ call = [pending |-> {1, 2}]
    /\ stats = [status |-> "results", results |-> <<>>]
    /\ verdict = Idle
    /\ census_files = <<>> /\ census = Idle /\ comp = Idle

\* the batch files may be taken in any order
LoadNextEnsemble ==
    /\ stats.status = "results"
    /\ \E i \in call.pending :
          /\ stats' = StoreResult(stats, i, load_ensemble(data[i]))
          /\ call' = [pending |-> call.pending \ {i}]
    /\ UNCHANGED <<verdict, data, census_files, census, comp>>

NextAll == LoadNextEnsemble

SpecAll == InitAll /\ [][NextAll]_vars

(* ---------------------------------------------------------------------- *)
(* The census run of main(): load_census, then the complementarity matrix  *)
(* ---------------------------------------------------------------------- *)

CensusModels == <<"openai:gpt-4", "xai:grok", "anthropic:claude">>

\* one census run of a model, by what is stored for it:
\* T stored true, F stored false, R stored {false, null} beside a right
\* answer, N nothing stored
CensusRun(model, kind) ==
    IF kind = "T" THEN Run("B", <<Resp(model, "B", FALSE)>>, <<>>,
                           (model :> [correct |-> "True", predicted |-> "x"]))
    ELSE IF kind = "F" THEN Run("B", <<Resp(model, "A", FALSE)>>, <<>>,
                                (model :> [correct |-> "False", predicted |-> "x"]))
    ELSE IF kind = "R" THEN Run("B", <<Resp(model, "B", FALSE)>>, <<>>,
                                (model :> [correct |-> "False", predicted |-> "None"]))
    ELSE Run("B", <<Resp(model, "B", FALSE)>>, <<>>, <<>>)

CensusFile(model, dataset, kinds) ==
    [model |-> model, dataset |-> dataset,
     runs |-> [i \in 1..Len(kinds) |-> CensusRun(model, Ch(kinds, i))]]

\* the runs of one census file, one letter per question
QuestionKinds == {"TTTT", "TTTF", "RTTT", "TNFF", "TT"}

\* the three files of a model, one per dataset
Profile(model, p) == [k \in 1..Len(DATASETS) |-> CensusFile(model, DATASETS[k], p[k])]

Profiles == [1..Len(DATASETS) -> QuestionKinds]

\* what the third model contributes: a top profile, or an empty file, a
\* file of an unlisted dataset and a short file
ThirdModelFiles ==
    { Profile(CensusModels[3], <<"TTTT", "TTTF", "TTTT">>),
      <<CensusFile(CensusModels[3], "gsm8k", ""), CensusFile(CensusModels[3], "unknown", "TTFF"),
        CensusFile(CensusModels[3], "gpqa", "TT")>> }

InitCensus ==
    /\ \E p1 \in Profiles, p2 \in Profiles, third \in ThirdModelFiles :
          census_files = Profile(CensusModels[1], p1) \o Profile(CensusModels[2], p2) \o third
    /\ census = [status |-> "pending"]
    /\ comp = [status |-> "pending"]
    /\ call = Idle /\ verdict = Idle /\ data = Idle /\ stats = Idle

LoadCensus ==
    /\ census.status = "pending"
    /\ census' = [status |-> "loaded", value |-> load_census(census_files)]
    /\ UNCHANGED <<call, verdict, data, stats, census_files, comp>>

FigComplementarityHeatmap ==
    /\ census.status = "loaded"
    /\ comp.status = "pending"
    /\ comp' = fig_complementarity_heatmap(census.value, census_files)
    /\ UNCHANGED <<call, verdict, data, stats, census_files, census>>

NextCensus == LoadCensus \/ FigComplementarityHeatmap

SpecCensus == InitCensus /\ [][NextCensus]_vars

(* ---------------------------------------------------------------------- *)
(* Calls of extract_numeric                                                *)
(* ---------------------------------------------------------------------- *)

\* texts before the cue phrase: none of them holds a cue phrase
TextsBefore == {"", "2 + 2, ", "**8** ", "paid $9, "}

CuePhrases == {"final answer", "Answer is", "equals", "="}

\* what stands between the cue phrase and the number
CueSeparators == {" ", "", " $", ": "}

GroupedNumbers == {"1,234.5", "-1,000", "2,000.25"}

TextsAfter == {"", " and 2", " or **8**", " of $9", ", so x = 4"}

InitExtract ==
    /\ \E b \in TextsBefore, c \in CuePhrases, sep \in CueSeparators,
          n \in GroupedNumbers, a \in TextsAfter :
            call = [text |-> b \o c \o sep \o n \o a,
                    before |-> b, cue |-> c, separator |-> sep, number |-> n, after |-> a]
    /\ verdict = [done |-> FALSE, value |-> PyNone]
    /\ data = Idle /\ stats = Idle
    /\ census_files = <<>> /\ census = Idle /\ comp = Idle

ExtractNumeric ==
    /\ ~verdict.done
    /\ verdict' = [done |-> TRUE, value |-> extract_numeric(call.text)]
    /\ UNCHANGED <<call, data, stats, census_files, census, comp>>

NextExtract == ExtractNumeric

SpecExtract == InitExtract /\ [][NextExtract]_vars

(* ---------------------------------------------------------------------- *)
(* Properties of the resolver                                              *)
(* ---------------------------------------------------------------------- *)

\* the response's model field is the target id or the target's short form
BelongsTo(resp, m) == resp.model = m \/ resp.model = short_name(m)

\* the two ids name one model, whichever of them is the short form
SameModel(a, b) == a = b \/ a = short_name(b) \/ short_name(a) = b

NamesTarget(resp, m) == SameModel(resp.model, m)

Stored(c) == EvalResult(c.r, c.m)

RecoveryCase(c) == Stored(c).correct = "False" /\ Stored(c).predicted = "None"

\* the non-errored responses of the run whose model field is m or m's short form
Usable(c) ==
    {i \in 1..Len(c.r.responses) : BelongsTo(c.r.responses[i], c.m) /\ ~c.r.responses[i].error}

\* the non-errored responses of the run that name m's model in either form
UsableEitherForm(c) ==
    {i \in 1..Len(c.r.responses) : NamesTarget(c.r.responses[i], c.m) /\ ~c.r.responses[i].error}

ContentVerdict(c, i) ==
    evaluate_answer(c.evaluator_type, c.r.responses[i].content, c.r.groundTruth)

\* C2: with a stored {correct: false, predicted: null} and a non-errored
\* response of M, the verdict is the evaluation of the first such response's
\* content, not the stored false
C2_RecoveryOverridesStored ==
    (verdict.done /\ RecoveryCase(call) /\ Usable(call) # {})
        => verdict.value = ContentVerdict(call, Min(Usable(call)))

C2_Witness ==
    /\ verdict.done /\ RecoveryCase(call) /\ Usable(call) # {}
    /\ ContentVerdict(call, Min(Usable(call)))
    /\ verdict.value

\* C3: a stored true, or a stored false with a non-null predicted value, is
\* returned as stored whatever the responses contain
C3_StoredIsAuthoritative ==
    (verdict.done /\ (Stored(call).correct = "True"
                        \/ (Stored(call).correct = "False" /\ Stored(call).predicted # "None")))
        => verdict.value = (Stored(call).correct = "True")

C3_Witness ==
    /\ verdict.done
    /\ Stored(call).correct = "False" /\ Stored(call).predicted # "None"
    /\ Usable(call) # {}
    /\ ContentVerdict(call, Min(Usable(call)))
    /\ ~verdict.value

\* C4: without stored metadata, the first non-errored response whose model
\* names the target model in either form decides the verdict
C4_SymmetricIdMatch ==
    (verdict.done /\ Stored(call).correct = "None" /\ UsableEitherForm(call) # {})
        => verdict.value = ContentVerdict(call, Min(UsableEitherForm(call)))

(* ---------------------------------------------------------------------- *)
(* Properties of extract_numeric                                           *)
(* ---------------------------------------------------------------------- *)

\* C12: a text holding a cue phrase followed by a grouped number yields that
\* number with the commas stripped, whatever else the text holds
C12_CueNumberReturned ==
    verdict.done => verdict.value = py_float(remove_commas(call.number))

(* ---------------------------------------------------------------------- *)
(* Properties of load_ensemble                                             *)
(* ---------------------------------------------------------------------- *)

Returned == stats.status # "pending"

RunIdx == 1..Len(data.runs)

\* every response of the batch, as <<run index, response index>>
AllResponses == UNION {{<<i, j>> : j \in 1..Len(data.runs[i].responses)} : i \in RunIdx}

ErroredResponses == {p \in AllResponses : data.runs[p[1]].responses[p[2]].error}

\* at least MIN_RUNS runs, and the errored responses are at most 15% of all
PassesGates ==
    /\ Len(data.runs) >= MIN_RUNS
    /\ 100 * Cardinality(ErroredResponses) <= MAX_ERROR_PCT * Cardinality(AllResponses)

KindOfData == IF Contains(data.dataset, "gsm8k") THEN "numeric" ELSE "mcq"

\* C1: load_ensemble returns None exactly for the batches that fail a gate
\* (fewer than 30 runs, or more than 15% errored responses), and a rejected
\* batch carries no statistics at all
C1_GateIffSizeAndErrorRate ==
    Returned => /\ (stats.status # "None") <=> PassesGates
                /\ (~PassesGates => stats = [status |-> "None"])

\* accepted at exactly 30 runs with exactly 15% errored responses
C1_Witness ==
    /\ stats.status = "stats"
    /\ Len(data.runs) = MIN_RUNS
    /\ Cardinality(ErroredResponses) > 0
    /\ 100 * Cardinality(ErroredResponses) = MAX_ERROR_PCT * Cardinality(AllResponses)

\* C5: the oracle accuracy is at least every listed model's accuracy and the
\* best model's; it counts the runs some listed model is correct for
C5_OracleDominatesModels ==
    stats.status = "stats" =>
        /\ \A m \in DOMAIN stats.model_acc : PctGE(stats.oracle_acc, stats.model_acc[m])
        /\ PctGE(stats.oracle_acc, stats.best_model_acc)
        /\ stats.oracle_acc =
             Pct(Cardinality({i \in RunIdx : \E m \in DOMAIN stats.model_acc :
                                model_correct_for_run(data.runs[i], m, KindOfData)}),
                 Len(data.runs))

\* two models, each below the oracle
C5_Witness ==
    /\ stats.status = "stats"
    /\ Cardinality(DOMAIN stats.model_acc) = 2
    /\ \A m \in DOMAIN stats.model_acc :
          stats.model_acc[m].num > 0 /\ ~PctGE(stats.model_acc[m], stats.oracle_acc)

\* the stored consensus string taken as the canonical answer, compared whole
CanonicalCorrect(answer, gt) ==
    /\ answer # "" /\ gt # ""
    /\ IF KindOfData = "numeric"
       THEN /\ ~py_float(remove_commas(answer)).none
            /\ ~py_float(remove_commas(gt)).none
            /\ Within1e6(py_float(remove_commas(answer)), py_float(remove_commas(gt)))
       ELSE str_upper(answer) = str_upper(gt)

\* the answer AnswerExtractor finds in the stored consensus string, compared
ExtractedCorrect(answer, gt) ==
    /\ answer # "" /\ gt # ""
    /\ IF KindOfData = "numeric"
       THEN /\ ~extract_numeric(answer).none
            /\ ~py_float(remove_commas(gt)).none
            /\ Within1e6(extract_numeric(answer), py_float(remove_commas(gt)))
       ELSE extract_mcq(answer) # "" /\ extract_mcq(answer) = str_upper(gt)

ConsensusOf(i, s) == IF s \in DOMAIN data.runs[i].consensus THEN data.runs[i].consensus[s] ELSE ""

\* C6 as stated: a run counts for a strategy iff the stored consensus string,
\* compared as a whole without extraction, matches the ground truth
C6_ConsensusComparedWhole ==
    stats.status = "stats" =>
        \A s \in DOMAIN stats.strategy_acc :
            stats.strategy_acc[s] =
                Pct(Cardinality({i \in RunIdx :
                        CanonicalCorrect(ConsensusOf(i, s), data.runs[i].groundTruth)}),
                    Len(data.runs))

\* C6 amended: a run counts for a strategy iff the answer extracted from the
\* stored consensus string matches the ground truth; missing counts incorrect
C6_ConsensusReExtracted ==
    stats.status = "stats" =>
        \A s \in DOMAIN stats.strategy_acc :
            stats.strategy_acc[s] =
                Pct(Cardinality({i \in RunIdx :
                        ExtractedCorrect(ConsensusOf(i, s), data.runs[i].groundTruth)}),
                    Len(data.runs))

\* a consensus string that is not canonical is counted correct
C6_Witness ==
    /\ stats.status = "stats"
    /\ \E s \in DOMAIN stats.strategy_acc : \E i \in RunIdx :
          /\ ExtractedCorrect(ConsensusOf(i, s), data.runs[i].groundTruth)
          /\ ~CanonicalCorrect(ConsensusOf(i, s), data.runs[i].groundTruth)
    /\ \E s \in DOMAIN stats.strategy_acc : \E i \in RunIdx :
          ConsensusOf(i, s) = ""

\* the canonical answers of the non-errored responses, in encounter order:
\* float values for numeric, letters for multiple choice
RECURSIVE Extracted(_)
Extracted(responses) ==
    IF responses = <<>> THEN <<>>
    ELSE LET c == Head(responses).content
             rest == Extracted(Tail(responses))
         IN  IF Head(responses).error THEN rest
             ELSE IF KindOfData = "numeric"
             THEN (IF extract_numeric(c).none THEN rest ELSE <<extract_numeric(c)>> \o rest)
             ELSE (IF extract_mcq(c) = "" THEN rest ELSE <<extract_mcq(c)>> \o rest)

\* highest count, first encountered among equals
MajorityVote(answers) ==
    answers[Min({i \in 1..Len(answers) :
                   \A j \in 1..Len(answers) :
                       Count(answers, answers[i]) >= Count(answers, answers[j])})]

VoteCorrect(vote, gt) ==
    /\ gt # ""
    /\ IF KindOfData = "numeric"
       THEN ~py_float(remove_commas(gt)).none /\ Within1e6(vote, py_float(remove_commas(gt)))
       ELSE vote = str_upper(gt)

MajorityCorrect(r) ==
    Extracted(r.responses) # <<>> /\ VoteCorrect(MajorityVote(Extracted(r.responses)), r.groundTruth)

\* C7: a run counts for the mechanical majority iff the most frequent
\* extracted answer (first encountered on ties) is correct against the ground
\* truth; a run with no extractable answer counts as incorrect
C7_MechanicalMajority ==
    stats.status = "stats" =>
        stats.mechanical_majority_acc =
            Pct(Cardinality({i \in RunIdx : MajorityCorrect(data.runs[i])}), Len(data.runs))

\* C8: a batch that passes both gates ends with statistics, never in an error
C8_NoFatalFailure == (Returned /\ PassesGates) => stats.status = "stats"

\* the positions of the model list whose accuracy no listed model exceeds
TopModels ==
    {i \in 1..Len(data.models) :
        \A j \in 1..Len(data.models) :
            PctGE(stats.model_acc[data.models[i]], stats.model_acc[data.models[j]])}

\* C11: with a non-empty model list, best_model is the first model of the
\* list among those of the highest per-model accuracy, and best_model_acc is
\* that model's accuracy
C11_BestIsFirstMaximum ==
    (stats.status = "stats" /\ data.models # <<>>) =>
        /\ stats.best_model = data.models[Min(TopModels)]
        /\ stats.best_model_acc = stats.model_acc[stats.best_model]
        /\ \A m \in DOMAIN stats.model_acc : PctGE(stats.best_model_acc, stats.model_acc[m])

\* two listed models tie at a positive accuracy
C11_Witness ==
    /\ stats.status = "stats"
    /\ Len(data.models) = 2
    /\ TopModels = {1, 2}
    /\ stats.best_model_acc.num > 0

\* texts put in place of the content of errored responses: nothing, and a
\* text both extractors find an answer in
OtherContents == {"", "9 A)"}

\* the batch d with the content of every errored response replaced by c
WithErroredContent(d, c) ==
    [d EXCEPT !.runs =
        [i \in DOMAIN d.runs |->
            [d.runs[i] EXCEPT !.responses =
                [j \in DOMAIN d.runs[i].responses |->
                    IF d.runs[i].responses[j].error
                    THEN [d.runs[i].responses[j] EXCEPT !.content = c]
                    ELSE d.runs[i].responses[j]]]]]

\* C14: a batch that differs from this one only in the content of errored
\* responses has the same outcome: same decision, same statistics
C14_ErroredContentIgnored ==
    Returned => \A c \in OtherContents : load_ensemble(WithErroredContent(data, c)) = stats

\* an accepted batch with an errored response of a listed model that holds
\* the right answer, in a run with nothing stored for that model, and with a
\* model that is correct on some run
C14_Witness ==
    /\ stats.status = "stats"
    /\ stats.best_model_acc.num > 0
    /\ \E p \in ErroredResponses : \E k \in 1..Len(data.models) :
          LET r == data.runs[p[1]]
          IN  /\ r.responses[p[2]].model = data.models[k]
              /\ data.models[k] \notin DOMAIN r.evaluation
              /\ evaluate_answer(KindOfData, r.responses[p[2]].content, r.groundTruth)
              /\ ~model_correct_for_run(r, data.models[k], KindOfData)

\* the runs whose stored evaluation marks model m correct
StoredCorrectRuns(m) ==
    {i \in RunIdx : m \in DOMAIN data.runs[i].evaluation
                     /\ data.runs[i].evaluation[m].correct = "True"}

\* C16: a batch of at least 30 runs without any response is accepted and
\* yields statistics, with mechanical-majority accuracy 0 and per-model
\* accuracies from the stored evaluations alone; a batch without runs is
\* rejected
C16_NoResponsesAccepted ==
    Returned =>
        /\ (Len(data.runs) >= MIN_RUNS /\ AllResponses = {}) =>
              /\ stats.status = "stats"
              /\ stats.mechanical_majority_acc.num = 0
              /\ \A m \in DOMAIN stats.model_acc :
                    stats.model_acc[m] = Pct(Cardinality(StoredCorrectRuns(m)), Len(data.runs))
        /\ (data.runs = <<>> => stats = [status |-> "None"])

(* ---------------------------------------------------------------------- *)
(* Properties of load_all_ensembles                                        *)
(* ---------------------------------------------------------------------- *)

Reversed(runs) == [i \in 1..Len(runs) |-> runs[Len(runs) + 1 - i]]

Rotated(runs) == IF runs = <<>> THEN <<>> ELSE Tail(runs) \o <<Head(runs)>>

\* the batch d with its runs in another order
Reordered(d) == {[d EXCEPT !.runs = Reversed(d.runs)], [d EXCEPT !.runs = Rotated(d.runs)]}

\* the batch files load_ensemble has returned statistics or None for
Processed ==
    {i \in DOMAIN data : i \notin call.pending /\ load_ensemble(data[i]).status # "ValueError"}

\* what load_all_ensembles keeps of a result: statistics, or nothing
Kept(r) == IF r.status = "stats" THEN {r} ELSE {}

KeptFor(i) == IF i \in DOMAIN stats.results THEN {stats.results[i]} ELSE {}

\* C15: whatever order the batch files are taken in, what is kept for a
\* batch is what load_ensemble gives for it alone, and it is the same for
\* the batch with its runs in another order
C15_OrderIndependent ==
    \A i \in Processed :
        /\ KeptFor(i) = Kept(load_ensemble(data[i]))
        /\ \A d \in Reordered(data[i]) : Kept(load_ensemble(d)) = KeptFor(i)

\* both batch files loaded and kept, the first one with a first run unlike
\* its last
C15_Witness ==
    /\ DOMAIN stats.results = {1, 2}
    /\ data[1].runs[1] # data[1].runs[Len(data[1].runs)]
    /\ stats.results[1].oracle_acc.num > 0
    /\ stats.results[1].n = Len(data[1].runs)

(* ---------------------------------------------------------------------- *)
(* Properties of the complementarity matrix                                *)
(* ---------------------------------------------------------------------- *)

FileOf(model, dataset) ==
    {f \in 1..Len(census_files) :
        census_files[f].model = model /\ census_files[f].dataset = dataset}

\* the question indices model has a verdict for in dataset
Questions(model, dataset) == UNION {DOMAIN census_files[f].runs : f \in FileOf(model, dataset)}

\* the stored verdict of model on question q of dataset
Verdict(model, dataset, q) ==
    LET f == CHOOSE f \in FileOf(model, dataset) : q \in DOMAIN census_files[f].runs
        results == census_files[f].runs[q].evaluation
    IN  model \in DOMAIN results /\ results[model].correct = "True"

DatasetSet == {DATASETS[k] : k \in 1..Len(DATASETS)}

Shared(m1, m2) ==
    UNION {{<<ds, q>> : q \in Questions(m1, ds) \cap Questions(m2, ds)} : ds \in DatasetSet}

Differing(m1, m2) == {p \in Shared(m1, m2) : Verdict(m1, p[1], p[2]) # Verdict(m2, p[1], p[2])}

Matrix == comp.comp_matrix

\* C9: off the diagonal, entry (i, j) is the number of shared questions on
\* which the two verdicts differ over the number of shared questions, 0
\* without shared questions; the diagonal is 0; equal verdicts give 0
C9_MatrixEntries ==
    comp.status = "matrix" =>
        \A i \in DOMAIN Matrix : \A j \in DOMAIN Matrix :
            LET m1 == comp.band_a[i]
                m2 == comp.band_a[j]
                e  == Matrix[i][j]
            IN  /\ e.den > 0
                /\ (i = j => e.num = 0)
                /\ (i # j /\ Shared(m1, m2) = {} => e.num = 0)
                /\ (i # j /\ Shared(m1, m2) # {} =>
                        e.num * Cardinality(Shared(m1, m2))
                            = Cardinality(Differing(m1, m2)) * e.den)
                /\ (Differing(m1, m2) = {} => e.num = 0)

\* a pair that disagrees on some shared questions and agrees on others,
\* sharing fewer questions than either model answered
C9_Witness ==
    /\ comp.status = "matrix"
    /\ \E i \in DOMAIN Matrix : \E j \in DOMAIN Matrix :
          /\ i # j
          /\ Matrix[i][j].num > 0
          /\ Matrix[i][j].num < Matrix[i][j].den
          /\ \E ds \in DatasetSet :
                Questions(comp.band_a[i], ds) # Questions(comp.band_a[j], ds)

\* the verdict model_correct_for_run gives for run q of census file f
Resolved(f, q) ==
    model_correct_for_run(census_files[f].runs[q], census_files[f].model,
        IF Contains(census_files[f].dataset, "gsm8k") THEN "numeric" ELSE "mcq")

\* C13: the per-question verdict the complementarity analysis holds for a
\* model on a run is the verdict model_correct_for_run gives for that run,
\* recovery path included
C13_PerQuestionIsResolved ==
    comp.status = "matrix" =>
        \A f \in 1..Len(census_files) : \A q \in DOMAIN census_files[f].runs :
            comp.per_q[census_files[f].model][census_files[f].dataset][q] = Resolved(f, q)

\* the accuracy of model on dataset in percent, 0 without a counted file
AccuracyOn(model, dataset) ==
    LET fs == {f \in FileOf(model, dataset) : census_files[f].runs # <<>>}
        f  == CHOOSE f \in fs : TRUE
    IN  IF fs = {} THEN Pct(0, 1)
        ELSE Pct(Cardinality({q \in DOMAIN census_files[f].runs : Verdict(model, dataset, q)}),
                 Len(census_files[f].runs))

\* average accuracy over the datasets >= 75, denominators cleared
AveragesAtLeast75(model) ==
    LET a == [k \in 1..3 |-> AccuracyOn(model, DATASETS[k])]
    IN  a[1].num * a[2].den * a[3].den + a[2].num * a[1].den * a[3].den
            + a[3].num * a[1].den * a[2].den
        >= 3 * BAND_A_MIN * a[1].den * a[2].den * a[3].den

AveragesExactly75(model) ==
    LET a == [k \in 1..3 |-> AccuracyOn(model, DATASETS[k])]
    IN  a[1].num * a[2].den * a[3].den + a[2].num * a[1].den * a[3].den
            + a[3].num * a[1].den * a[2].den
        = 3 * BAND_A_MIN * a[1].den * a[2].den * a[3].den

CensusModelSet == {census_files[f].model : f \in {g \in 1..Len(census_files) : census_files[g].runs # <<>>}}

Qualifying == {m \in CensusModelSet : AveragesAtLeast75(m)}

====
